---- MODULE Spec2Model ----
(***************************************************************************)
(* Model of the power-ranking engine of utils/power_ranking_generator.py   *)
(* (PowerRankingCalculator and its two public entry points) together with  *)
(* helper.get_current_week.  One behaviour of the model is one ranking run *)
(* of one entry point: construct the calculator, gather the team data week *)
(* by week, derive the metrics, average, score, sort, rank and return.     *)
(*                                                                         *)
(* Numbers.  Weekly points are integers; every derived metric is an exact  *)
(* rational <<n, d>> in lowest terms with d > 0.  The one irrational step, *)
(* the square root inside statistics.stdev, is taken to 1/SqrtScale.       *)
(***************************************************************************)
EXTENDS Integers, Sequences, FiniteSets, TLC

\* ---------------------------------------------------------------- bounds
MaxRosters == 3
MaxDay == 18
SqrtScale == 100
\* the significant bits a float keeps (53 in the program's doubles)
MantBits == 8
\* the last day of the calendar walked through, in days since 9/4/2025
MaxCalendarDay == 120

\* The points a provider record can carry: the numbers of Scores, or Bad, a
\* value that is not a number (a string in the provider's JSON).
Scores == {0, 2}
Bad == -1000
IsNum(s) == s # Bad

\* float('inf'), the initial lowest_score.
Inf == 1000000

\* ------------------------------------------------------------- rationals
Abs(i) == IF i < 0 THEN -i ELSE i

RECURSIVE GCD(_, _)
GCD(a, b) == IF b = 0 THEN a ELSE GCD(b, a % b)

Norm(n, d) ==
    LET g == GCD(Abs(n), Abs(d))
        s == IF d < 0 THEN -1 ELSE 1
    IN  <<(s * n) \div g, (s * d) \div g>>

Zero == <<0, 1>>
One == <<1, 1>>
R(i) == <<i, 1>>
Frac(n, d) == Norm(n, d)

LCM(a, b) == (a \div GCD(a, b)) * b

RAdd(x, y) ==
    LET l == LCM(x[2], y[2])
    IN  Norm(x[1] * (l \div x[2]) + y[1] * (l \div y[2]), l)
RNeg(x) == <<-x[1], x[2]>>
RSub(x, y) == RAdd(x, RNeg(y))
RMul(x, y) ==
    LET a == Norm(x[1], y[2])
        b == Norm(y[1], x[2])
    IN  <<a[1] * b[1], a[2] * b[2]>>
RInv(x) == Norm(x[2], x[1])
RDivide(x, y) == RMul(x, RInv(y))
\* a/b < c/d for b, d > 0, by whole parts and then the reciprocals of the
\* remainders, so that no product leaves the machine integers
RECURSIVE FracLt(_, _, _, _)
FracLt(a, b, c, d) ==
    LET qa == a \div b
        qc == c \div d
        ra == a - qa * b
        rc == c - qc * d
    IN  IF qa # qc THEN qa < qc
        ELSE IF ra = 0 THEN rc > 0
        ELSE IF rc = 0 THEN FALSE
        ELSE FracLt(d, rc, b, ra)
RLt(x, y) == FracLt(x[1], x[2], y[1], y[2])
RLe(x, y) == ~RLt(y, x)
RMax(x, y) == IF RLt(x, y) THEN y ELSE x
RMin(x, y) == IF RLt(y, x) THEN y ELSE x
RIsZero(x) == x[1] = 0

RECURSIVE SumInts(_)
SumInts(s) == IF s = <<>> THEN 0 ELSE Head(s) + SumInts(Tail(s))

RECURSIVE SumRats(_)
SumRats(s) == IF s = <<>> THEN Zero ELSE RAdd(Head(s), SumRats(Tail(s)))

\* floor(sqrt(n)) by bisection on lo..hi
RECURSIVE ISqrtIn(_, _, _)
ISqrtIn(n, lo, hi) ==
    IF lo >= hi THEN lo
    ELSE LET mid == (lo + hi + 1) \div 2
         IN  IF mid * mid <= n THEN ISqrtIn(n, mid, hi) ELSE ISqrtIn(n, lo, mid - 1)
ISqrt(n) == ISqrtIn(n, 0, IF n < 40000 THEN n ELSE 40000)

\* sqrt of a rational >= 0, rounded down to a multiple of 1/SqrtScale
RSqrt(x) == Norm(ISqrt((x[1] * SqrtScale * SqrtScale) \div x[2]), SqrtScale)

\* ------------------------------------------------------- float rounding
\* The program's numbers are binary floats: the result of every + and / is
\* the nearest number with MantBits significant bits, a tie going to the even
\* mantissa.
RECURSIVE Pow2(_)
Pow2(k) == IF k = 0 THEN 1 ELSE 2 * Pow2(k - 1)

\* n/d > 0 to the nearest float
RECURSIVE RoundPos(_, _)
RoundPos(n, d) ==
    IF n >= d * Pow2(MantBits) THEN RMul(R(2), RoundPos(n, 2 * d))
    ELSE IF n < d * Pow2(MantBits - 1) THEN RDivide(RoundPos(2 * n, d), R(2))
    ELSE LET q == n \div d
             r == n - q * d
         IN  R(IF 2 * r < d THEN q
               ELSE IF 2 * r > d THEN q + 1
               ELSE IF q % 2 = 0 THEN q ELSE q + 1)

FlRound(x) ==
    IF x[1] = 0 THEN Zero
    ELSE IF x[1] < 0 THEN RNeg(RoundPos(0 - x[1], x[2]))
    ELSE RoundPos(x[1], x[2])

\* a + b of two floats that are whole numbers: a whole number again
FlAdd(a, b) == FlRound(R(a + b))[1]

\* ------------------------------------------------------- helper.py
\* date_week_dict, as days since 9/4/2025 (9/4 -> 0, 9/8 -> 4, 9/15 -> 11, ...)
WeekStartDays == <<0, 4, 11, 18, 25, 32, 39, 46, 53, 60, 67, 74, 81, 88, 95, 102, 109, 116>>
NoneWeek == 0

\* the dates are walked latest first; the first one <= current_date decides
RECURSIVE WeekFrom(_, _)
WeekFrom(current_date, i) ==
    IF i = 0 THEN NoneWeek
    ELSE IF current_date >= WeekStartDays[i] THEN i
    ELSE WeekFrom(current_date, i - 1)

\* the dates walked earliest first (reverse=True left out of line 33)
get_current_week_earliest_first(current_date) ==
    IF current_date >= WeekStartDays[1] THEN 1 ELSE NoneWeek

get_current_week(current_date) == WeekFrom(current_date, Len(WeekStartDays))

Dates == (0 - 1)..MaxDay

\* ------------------------------------------------------- provider data
TeamNames == <<"A", "B", "C", "D", "E">>
PlaceholderNames == <<"Team 1", "Team 2", "Team 3", "Team 4", "Team 5">>

\* get_rosters(): n rosters, roster r owned by user r
Rosters(n) == [r \in 1..n |-> [roster_id |-> r, owner_id |-> r]]

\* map_users_to_team_name(users): every owner has his own name; or the last
\* owner is no user of the league; or the last owner chose the first one's name
UserMappings(n) ==
    IF n = 0 THEN {<<>>}
    ELSE { [o \in 1..n |-> TeamNames[o]],
           [o \in 1..(n - 1) |-> TeamNames[o]],
           [o \in 1..n |-> IF o = n THEN TeamNames[1] ELSE TeamNames[o]] }

\* line 47: user_team_mapping.get(owner_id, f"Team {roster['roster_id']}")
TeamNameOf(roster, user_team_mapping) ==
    IF roster.owner_id \in DOMAIN user_team_mapping
    THEN user_team_mapping[roster.owner_id]
    ELSE PlaceholderNames[roster.roster_id]

\* ------------------------------------------------------- state
VARIABLES
    pc,               \* where the run stands
    current_week,     \* PowerRankingCalculator.current_week
    rosters,          \* league.get_rosters()
    user_team_mapping,\* league.map_users_to_team_name(users)
    team_data,        \* PowerRankingCalculator.team_data, in insertion order
    league_averages,  \* PowerRankingCalculator.league_averages (<<>> is {})
    week,             \* the last week the loop of gather_team_data took
    rankings,         \* the local list of generate_power_rankings
    exc,              \* the exception on its way to the entry point's handler
    result,           \* what the entry point returned
    weeklog,          \* history: per week taken, whether it ran to its end ("ok"),
                      \* raised before an entry was processed ("skipped") or
                      \* raised part-way ("raised"), and who played in it
    earlier,          \* history: the runs the caller made before this one, what
                      \* each was given and what it returned
    clock,            \* the wall clock where a specification fixes it: the day
                      \* (days since 9/4/2025) and the hour
    availability      \* what check_availability returned

vars == <<pc, current_week, rosters, user_team_mapping, team_data,
          league_averages, week, rankings, exc, result, weeklog, earlier,
          clock, availability>>

NoResult == [pending |-> TRUE]
\* the clock of a specification that draws the date where it is read
NoClock == [unread |-> TRUE]
\* check_availability was not called
NoAnswer == <<>>
\* {}: line 30
NoAverages == <<>>

Init ==
    /\ pc = "new"
    /\ current_week = 0
    /\ rosters = <<>>
    /\ user_team_mapping = <<>>
    /\ team_data = <<>>
    /\ league_averages = NoAverages
    /\ week = 0
    /\ rankings = <<>>
    /\ exc = "none"
    /\ result = NoResult
    /\ weeklog = <<>>
    /\ earlier = <<>>
    /\ clock = NoClock
    /\ availability = NoAnswer

\* ------------------------------------------------------- __init__
\* lines 25-30; get_current_week(...) - 1 is a TypeError when it returned None
ConstructOn(now) ==
    /\ pc = "new"
    /\ LET w == get_current_week(now)
       IN  IF w = NoneWeek
           THEN /\ pc' = "raised"
                /\ exc' = "TypeError"
                /\ UNCHANGED current_week
           ELSE /\ pc' = "constructed"
                /\ current_week' = w - 1
                /\ UNCHANGED exc
    /\ UNCHANGED <<clock, availability, earlier, rosters, user_team_mapping, team_data, league_averages,
                   week, rankings, result, weeklog>>

Construct == \E now \in Dates : ConstructOn(now)

\* ------------------------------------------------------- team_data as a dict
Names(td) == { td[i].team_name : i \in 1..Len(td) }
IndexOf(td, name) == CHOOSE i \in 1..Len(td) : td[i].team_name = name

\* d.setdefault(name, rec): the record of an old key stays
DictPutKeepsOld(td, rec) ==
    IF rec.team_name \in Names(td) THEN td ELSE Append(td, rec)

\* d[name] = rec: a new key goes last, an old key keeps its place
DictPut(td, rec) ==
    IF rec.team_name \in Names(td)
    THEN [td EXCEPT ![IndexOf(td, rec.team_name)] = rec]
    ELSE Append(td, rec)

\* lines 49-62
NewTeam(team_name, roster) ==
    [ team_name |-> team_name,
      roster_id |-> roster.roster_id,
      owner_id |-> roster.owner_id,
      weekly_scores |-> <<>>,
      wins |-> 0,
      losses |-> 0,
      points_for |-> 0,
      points_against |-> 0,
      recent_form |-> <<>>,
      highest_score |-> 0,
      lowest_score |-> Inf,
      win_streak |-> 0,
      loss_streak |-> 0 ]

\* lines 45-62, from roster i on
RECURSIVE InitTeams(_, _, _, _)
InitTeams(td, rs, mapping, i) ==
    IF i > Len(rs) THEN td
    ELSE InitTeams(DictPut(td, NewTeam(TeamNameOf(rs[i], mapping), rs[i])),
                   rs, mapping, i + 1)

\* lines 36-62: the fetches, the mappings and the initial records
GatherInitOn(rs, m) ==
    /\ pc = "constructed"
    /\ rosters' = rs
    /\ user_team_mapping' = m
    /\ team_data' = InitTeams(team_data, rs, m, 1)
    /\ pc' = "weeks"
    /\ UNCHANGED <<clock, availability, earlier, current_week, league_averages, week, rankings, exc, result, weeklog>>

GatherInit ==
    \E n \in 0..MaxRosters : \E m \in UserMappings(n) : GatherInitOn(Rosters(n), m)

\* lines 36-38: get_rosters(), get_users() or get_standings() raises
FetchRostersFails ==
    /\ pc = "constructed"
    /\ pc' = "raised"
    /\ exc' = "FetchError"
    /\ UNCHANGED <<clock, availability, earlier, current_week, rosters, user_team_mapping, team_data,
                   league_averages, week, rankings, result, weeklog>>

FetchUsersFails ==
    /\ pc = "constructed"
    /\ \E n \in 0..MaxRosters : rosters' = Rosters(n)
    /\ pc' = "raised"
    /\ exc' = "FetchError"
    /\ UNCHANGED <<clock, availability, earlier, current_week, user_team_mapping, team_data,
                   league_averages, week, rankings, result, weeklog>>

\* ------------------------------------------------------- a week's raw records
MinScore == CHOOSE s \in Scores : \A t \in Scores : s <= t
MaxScore == CHOOSE s \in Scores : \A t \in Scores : s >= t

\* get_matchups(week): one record per roster, in roster order.  Rosters i and
\* i+1 share matchup 1 with points a and b; every other roster is alone in a
\* matchup of its own (a bye).
PairWeek(n, i, a, b) ==
    [r \in 1..n |->
        [ matchup_id |-> IF r \in {i, i + 1} THEN 1 ELSE r + 1,
          roster_id |-> r,
          points |-> IF r = i THEN a ELSE IF r = i + 1 THEN b ELSE MinScore ]]

\* every roster under the same matchup id
CrowdWeek(n) ==
    [r \in 1..n |-> [matchup_id |-> 1, roster_id |-> r, points |-> MaxScore]]

WeekInputs(n) ==
    { PairWeek(n, i, a, b) : i \in 1..(n - 1), a \in Scores, b \in Scores }
    \cup (IF n >= 2 THEN { PairWeek(n, 1, Bad, Bad), PairWeek(n, 1, Bad, MaxScore) }
          ELSE {})
    \cup { CrowdWeek(n) }

\* ------------------------------------------------------- scoreboards
\* sleeper_helper.calculate_scoreboards, after section 4.1 of the specification

\* the matchup ids in the order they first appear
RECURSIVE MatchupIds(_, _)
MatchupIds(matchups, i) ==
    IF i > Len(matchups) THEN <<>>
    ELSE LET rest == MatchupIds(matchups, i + 1)
             id == matchups[i].matchup_id
         IN  <<id>> \o SelectSeq(rest, LAMBDA x : x # id)

\* the owner's team name, or the placeholder of a roster without one
ResolveSide(m, mapping) ==
    <<TeamNameOf([roster_id |-> m.roster_id, owner_id |-> m.roster_id], mapping),
      m.points>>

RECURSIVE SidesOf(_, _, _, _)
SidesOf(matchups, id, mapping, i) ==
    IF i > Len(matchups) THEN <<>>
    ELSE (IF matchups[i].matchup_id = id
          THEN <<ResolveSide(matchups[i], mapping)>> ELSE <<>>)
         \o SidesOf(matchups, id, mapping, i + 1)

\* a number and a value that is no number do not compare
Comparable(sides) ==
    \A i, j \in 1..Len(sides) : IsNum(sides[i][2]) = IsNum(sides[j][2])

\* x goes behind every side whose score is >= its own: descending and stable
InsertSide(sorted, x) ==
    LET before == { j \in 1..Len(sorted) : sorted[j][2] < x[2] }
        k == IF before = {} THEN Len(sorted) + 1
             ELSE CHOOSE j \in before : \A l \in before : j <= l
    IN  SubSeq(sorted, 1, k - 1) \o <<x>> \o SubSeq(sorted, k, Len(sorted))

RECURSIVE SortSides(_, _)
SortSides(sides, i) ==
    IF i = 0 THEN <<>> ELSE InsertSide(SortSides(sides, i - 1), sides[i])

\* [raised, boards]: the entries with two sides or more, winner first, in the
\* order of their matchup ids
RECURSIVE BoardsFrom(_, _, _, _)
BoardsFrom(matchups, ids, mapping, i) ==
    IF i > Len(ids) THEN [raised |-> FALSE, boards |-> <<>>]
    ELSE LET sides == SidesOf(matchups, ids[i], mapping, 1)
             rest == BoardsFrom(matchups, ids, mapping, i + 1)
         IN  IF Len(sides) < 2 THEN rest
             ELSE IF ~Comparable(sides) \/ rest.raised
                  THEN [raised |-> TRUE, boards |-> <<>>]
                  ELSE [raised |-> FALSE,
                        boards |-> <<SortSides(sides, Len(sides))>> \o rest.boards]

calculate_scoreboards(matchups, mapping) ==
    BoardsFrom(matchups, MatchupIds(matchups, 1), mapping, 1)

\* ------------------------------------------------------- one week, lines 66-116
RecentWindow == 3
IntMax(a, b) == IF a >= b THEN a ELSE b
IntMin(a, b) == IF a <= b THEN a ELSE b

\* lines 79-93 (token "W", the wins) and 98-112 (token "L", the losses): the
\* statements in order, up to the first one that raises
UpdateSide(td, name, own, opp, token, wk, cw) ==
    IF name \notin Names(td) THEN [td |-> td, raised |-> FALSE]
    ELSE LET i == IndexOf(td, name)
             t1 == [td[i] EXCEPT !.weekly_scores = Append(@, own),
                                 !.wins = IF token = "W" THEN @ + 1 ELSE @,
                                 !.losses = IF token = "L" THEN @ + 1 ELSE @]
         IN  IF ~IsNum(own) THEN [td |-> [td EXCEPT ![i] = t1], raised |-> TRUE]
             ELSE LET t2 == [t1 EXCEPT !.points_for = FlAdd(@, own)]
                  IN  IF ~IsNum(opp)
                      THEN [td |-> [td EXCEPT ![i] = t2], raised |-> TRUE]
                      ELSE LET t3 == [t2 EXCEPT
                                   !.points_against = FlAdd(@, opp),
                                   !.highest_score = IntMax(@, own),
                                   !.lowest_score = IntMin(@, own),
                                   !.recent_form =
                                       IF wk > cw - RecentWindow
                                       THEN Append(@, token) ELSE @]
                           IN  [td |-> [td EXCEPT ![i] = t3], raised |-> FALSE]

\* lines 72-112 with len(teams) >= 2 at line 72: the first two sides of a
\* longer entry are taken for winner and loser
ProcessMatchupAnySize(td, teams, wk, cw) ==
    IF Len(teams) < 2 THEN [td |-> td, raised |-> FALSE]
    ELSE LET winner == teams[1]
             loser == teams[2]
             w == UpdateSide(td, winner[1], winner[2], loser[2], "W", wk, cw)
         IN  IF w.raised THEN w
             ELSE UpdateSide(w.td, loser[1], loser[2], winner[2], "L", wk, cw)

\* lines 72-112 with the second side taken for the winner of equal scores
ProcessMatchupTieToSecond(td, teams, wk, cw) ==
    IF Len(teams) # 2 THEN [td |-> td, raised |-> FALSE]
    ELSE LET tied == teams[1][2] = teams[2][2]
             winner == IF tied THEN teams[2] ELSE teams[1]
             loser == IF tied THEN teams[1] ELSE teams[2]
             w == UpdateSide(td, winner[1], winner[2], loser[2], "W", wk, cw)
         IN  IF w.raised THEN w
             ELSE UpdateSide(w.td, loser[1], loser[2], winner[2], "L", wk, cw)

\* lines 72-112
ProcessMatchup(td, teams, wk, cw) ==
    IF Len(teams) # 2 THEN [td |-> td, raised |-> FALSE]
    ELSE LET winner == teams[1]
             loser == teams[2]
             w == UpdateSide(td, winner[1], winner[2], loser[2], "W", wk, cw)
         IN  IF w.raised THEN w
             ELSE UpdateSide(w.td, loser[1], loser[2], winner[2], "L", wk, cw)

\* line 71: the entries in order, up to the first one that raises
RECURSIVE ProcessBoards(_, _, _, _, _)
ProcessBoards(td, boards, i, wk, cw) ==
    IF i > Len(boards) THEN [td |-> td, raised |-> FALSE]
    ELSE LET r == ProcessMatchup(td, boards[i], wk, cw)
         IN  IF r.raised THEN r ELSE ProcessBoards(r.td, boards, i + 1, wk, cw)

\* the names on the two-sided entries of a week
Played(boards) ==
    UNION { { b[1][1], b[2][1] } : b \in { boards[i] : i \in { j \in 1..Len(boards) : Len(boards[j]) = 2 } } }

LogEntry(wk, outcome, played) == [week |-> wk, outcome |-> outcome, played |-> played]

\* line 67 raises: lines 114-116 take the next week
WeekFetchFails ==
    /\ pc = "weeks"
    /\ week < current_week
    /\ week' = week + 1
    /\ weeklog' = Append(weeklog, LogEntry(week + 1, "skipped", {}))
    /\ UNCHANGED <<clock, availability, earlier, pc, current_week, rosters, user_team_mapping, team_data,
                   league_averages, rankings, exc, result>>

\* line 68 raises
WeekBuildFails ==
    /\ pc = "weeks"
    /\ week < current_week
    /\ \E matchups \in WeekInputs(Len(rosters)) :
          calculate_scoreboards(matchups, user_team_mapping).raised
    /\ week' = week + 1
    /\ weeklog' = Append(weeklog, LogEntry(week + 1, "skipped", {}))
    /\ UNCHANGED <<clock, availability, earlier, pc, current_week, rosters, user_team_mapping, team_data,
                   league_averages, rankings, exc, result>>

\* lines 67-112 run to the end of the week's entries
WeekCompletesOn(matchups) ==
    /\ pc = "weeks"
    /\ week < current_week
    /\ LET sb == calculate_scoreboards(matchups, user_team_mapping)
           r == ProcessBoards(team_data, sb.boards, 1, week + 1, current_week)
       IN  /\ ~sb.raised
           /\ ~r.raised
           /\ team_data' = r.td
           /\ weeklog' = Append(weeklog, LogEntry(week + 1, "ok", Played(sb.boards)))
    /\ week' = week + 1
    /\ UNCHANGED <<clock, availability, earlier, pc, current_week, rosters, user_team_mapping,
                   league_averages, rankings, exc, result>>

WeekCompletes == \E matchups \in WeekInputs(Len(rosters)) : WeekCompletesOn(matchups)

\* a statement of lines 79-112 raises: what ran before it stays, lines 114-116
WeekRaisesPartWay ==
    /\ pc = "weeks"
    /\ week < current_week
    /\ \E matchups \in WeekInputs(Len(rosters)) :
          LET sb == calculate_scoreboards(matchups, user_team_mapping)
              r == ProcessBoards(team_data, sb.boards, 1, week + 1, current_week)
          IN  /\ ~sb.raised
              /\ r.raised
              /\ team_data' = r.td
              /\ weeklog' = Append(weeklog, LogEntry(week + 1, "raised", Played(sb.boards)))
    /\ week' = week + 1
    /\ UNCHANGED <<clock, availability, earlier, pc, current_week, rosters, user_team_mapping,
                   league_averages, rankings, exc, result>>

\* ------------------------------------------------------- raising arithmetic
\* A value with denominator 0 stands for the exception the operation raised.
ZeroDivisionError == <<0, 0>>
StatisticsError == <<1, 0>>
TypeError == <<2, 0>>
IsErr(x) == x[2] = 0
ErrName(x) ==
    IF x = ZeroDivisionError THEN "ZeroDivisionError"
    ELSE IF x = StatisticsError THEN "StatisticsError" ELSE "TypeError"

\* x / y
Div(x, y) == IF RIsZero(y) THEN ZeroDivisionError ELSE RDivide(x, y)

RECURSIVE SumSquares(_)
SumSquares(s) == IF s = <<>> THEN 0 ELSE Head(s) * Head(s) + SumSquares(Tail(s))

\* statistics.stdev: the sample standard deviation of two numbers or more
stdev(xs) ==
    IF \E i \in 1..Len(xs) : ~IsNum(xs[i]) THEN TypeError
    ELSE IF Len(xs) < 2 THEN StatisticsError
    ELSE LET n == Len(xs)
             sm == SumInts(xs)
         IN  RSqrt(Frac(n * SumSquares(xs) - sm * sm, n * (n - 1)))

\* statistics.mean
mean(xs) ==
    IF xs = <<>> THEN StatisticsError ELSE RDivide(SumRats(xs), R(Len(xs)))

\* ------------------------------------------------------- derived metrics
\* the guard of line 123 left out
HasGamesAlways(games_played) == TRUE

\* line 123
HasGames(games_played) == games_played > 0
\* the branch of line 131 never taken
HasSpreadNever(weekly_scores) == FALSE

\* line 131
HasSpread(weekly_scores) == Len(weekly_scores) > 1
\* line 141
HasRecent(recent_games) == recent_games > 0

Count(seq, x) == Cardinality({ i \in 1..Len(seq) : seq[i] = x })

\* lines 120-156 for one team: [exc, rec]; rec holds what was assigned before
\* the statement that raised
DeriveTeam(data) ==
    LET games_played == data.wins + data.losses
        g == R(games_played)
    IN  IF HasGames(games_played)
        THEN LET wp == Div(R(data.wins), g)
                 apf == Div(R(data.points_for), g)
                 apa == Div(R(data.points_against), g)
                 pd == R(data.points_for - data.points_against)
                 apd == Div(pd, g)
                 basic == data @@ [ win_percentage |-> wp,
                                    avg_points_for |-> apf,
                                    avg_points_against |-> apa,
                                    point_differential |-> pd,
                                    avg_point_differential |-> apd ]
                 spread == HasSpread(data.weekly_scores)
                 sd == IF spread THEN stdev(data.weekly_scores) ELSE Zero
                 recent_wins == Count(data.recent_form, "W")
                 recent_games == Len(data.recent_form)
                 rf == IF HasRecent(recent_games)
                       THEN Div(R(recent_wins), R(recent_games)) ELSE Zero
             IN  IF IsErr(wp) THEN [exc |-> ErrName(wp), rec |-> data]
                 ELSE IF IsErr(sd) THEN [exc |-> ErrName(sd), rec |-> basic]
                 ELSE IF IsErr(rf) THEN [exc |-> ErrName(rf), rec |-> basic]
                 ELSE [exc |-> "none",
                       rec |-> [ basic EXCEPT
                                   !.lowest_score = IF @ = Inf THEN 0 ELSE @ ]
                               @@ [ score_std_dev |-> sd,
                                    consistency_score |->
                                        IF spread THEN RDivide(One, RAdd(One, sd))
                                        ELSE One,
                                    recent_form_pct |-> rf ]]
        ELSE [exc |-> "none",
              rec |-> [ data EXCEPT !.lowest_score = 0 ]
                      @@ [ win_percentage |-> Zero,
                           avg_points_for |-> Zero,
                           avg_points_against |-> Zero,
                           point_differential |-> Zero,
                           avg_point_differential |-> Zero,
                           score_std_dev |-> Zero,
                           consistency_score |-> Zero,
                           recent_form_pct |-> Zero ]]

\* line 119: the teams in order, up to the first one that raises
RECURSIVE DeriveFrom(_, _)
DeriveFrom(td, i) ==
    IF i > Len(td) THEN [exc |-> "none", td |-> td]
    ELSE LET r == DeriveTeam(td[i])
             next == [td EXCEPT ![i] = r.rec]
         IN  IF r.exc # "none" THEN [exc |-> r.exc, td |-> next]
             ELSE DeriveFrom(next, i + 1)

\* lines 118-158 inside the loop over the weeks: run after any week
DerivedMetricsInsideLoop ==
    /\ pc = "weeks"
    /\ LET r == DeriveFrom(team_data, 1)
       IN  /\ team_data' = r.td
           /\ exc' = r.exc
           /\ pc' = IF r.exc = "none" THEN "derived" ELSE "raised"
    /\ UNCHANGED <<clock, availability, earlier, current_week, rosters, user_team_mapping, league_averages,
                   week, rankings, result, weeklog>>

\* lines 118-158 with recent_form cut down in place to its last two tokens
DerivedMetricsTrimsForm ==
    /\ pc = "weeks"
    /\ week >= current_week
    /\ LET r == DeriveFrom(team_data, 1)
       IN  /\ team_data' =
                [ i \in 1..Len(r.td) |->
                    [ r.td[i] EXCEPT !.recent_form =
                        SubSeq(@, IntMax(1, Len(@) - 1), Len(@)) ] ]
           /\ exc' = r.exc
           /\ pc' = IF r.exc = "none" THEN "derived" ELSE "raised"
    /\ UNCHANGED <<clock, availability, earlier, current_week, rosters, user_team_mapping, league_averages,
                   week, rankings, result, weeklog>>

\* lines 118-158, once the loop over the weeks has ended
DerivedMetrics ==
    /\ pc = "weeks"
    /\ week >= current_week
    /\ LET r == DeriveFrom(team_data, 1)
       IN  /\ team_data' = r.td
           /\ exc' = r.exc
           /\ pc' = IF r.exc = "none" THEN "derived" ELSE "raised"
    /\ UNCHANGED <<clock, availability, earlier, current_week, rosters, user_team_mapping, league_averages,
                   week, rankings, result, weeklog>>

\* ------------------------------------------------------- league averages
IsEmptyAverages(la) == DOMAIN la = {}

RECURSIVE Column(_, _, _)
Column(teams, field, i) ==
    IF i > Len(teams) THEN <<>> ELSE <<teams[i][field]>> \o Column(teams, field, i + 1)

\* line 165 without its condition: every team counts
TeamsWithGamesAll(td) == td

\* line 165
TeamsWithGames(td) == SelectSeq(td, LAMBDA data : data.wins + data.losses > 0)
\* line 167
AnyTeam(teams_with_games) == teams_with_games # <<>>

\* lines 162-173: the new value of self.league_averages, or the exception
LeagueAverages(td, old) ==
    IF td = <<>> THEN old
    ELSE LET teams_with_games == TeamsWithGames(td)
         IN  IF AnyTeam(teams_with_games)
             THEN [ avg_points_for |-> mean(Column(teams_with_games, "avg_points_for", 1)),
                    avg_points_against |-> mean(Column(teams_with_games, "avg_points_against", 1)),
                    avg_win_pct |-> mean(Column(teams_with_games, "win_percentage", 1)),
                    avg_point_diff |-> mean(Column(teams_with_games, "avg_point_differential", 1)) ]
             ELSE old

calculate_league_averages ==
    /\ pc = "derived"
    /\ LET la == LeagueAverages(team_data, league_averages)
       IN  IF ~IsEmptyAverages(la) /\ IsErr(la.avg_points_for)
           THEN /\ pc' = "raised"
                /\ exc' = ErrName(la.avg_points_for)
                /\ UNCHANGED league_averages
           ELSE /\ pc' = "averaged"
                /\ league_averages' = la
                /\ UNCHANGED exc
    /\ UNCHANGED <<clock, availability, earlier, current_week, rosters, user_team_mapping, team_data,
                   week, rankings, result, weeklog>>

\* ------------------------------------------------------- ranking formulas
\* the cap of line 215 without its lower end
ClampUpperOnly(x, lo, hi) == RMin(x, hi)

Clamp(x, lo, hi) == RMax(RMin(x, hi), lo)

\* lines 180-184
oberon_power_rating(data) ==
    LET avg_score_component == RMul(data.avg_points_for, Frac(6, 10))
        high_low_component ==
            RMul(RDivide(R(data.highest_score + data.lowest_score), R(2)), Frac(2, 10))
        win_pct_component == RMul(RMul(data.win_percentage, R(100)), Frac(2, 10))
    IN  RDivide(RAdd(RAdd(avg_score_component, high_low_component), win_pct_component),
                R(10))

\* line 190
NoPointsAgainst(data) == RIsZero(data.avg_points_against)

\* lines 190-193
team_value_index(data) ==
    IF NoPointsAgainst(data) THEN Zero
    ELSE LET q == Div(data.avg_points_for, data.avg_points_against)
         IN  IF IsErr(q) THEN q ELSE RMul(q, data.win_percentage)

\* line 211
LeagueScores(la) == RLt(Zero, la.avg_points_for)

points_for_norm(data, la) ==
    IF LeagueScores(la) THEN Div(data.avg_points_for, la.avg_points_for) ELSE Zero

\* lines 214-216
point_diff_norm(data, la) ==
    LET scaled == RDivide(RSub(data.avg_point_differential, la.avg_point_diff), R(10))
        capped == Clamp(scaled, R(0 - 1), One)
    IN  RDivide(RAdd(capped, One), R(2))

\* the five terms added up without their weights
UnweightedSum(wp, pf, pd, rf, cs) ==
    RAdd(RAdd(RAdd(RAdd(wp, pf), pd), rf), cs)

\* lines 225-231
WeightedSum(wp, pf, pd, rf, cs) ==
    RAdd(RAdd(RAdd(RAdd(RMul(wp, Frac(30, 100)), RMul(pf, Frac(25, 100))),
                   RMul(pd, Frac(20, 100))),
              RMul(rf, Frac(15, 100))),
         RMul(cs, Frac(10, 100)))

\* lines 204-233
comprehensive_power_score(data, la) ==
    IF IsEmptyAverages(la) THEN Zero
    ELSE LET pf == points_for_norm(data, la)
         IN  IF IsErr(pf) THEN pf
             ELSE WeightedSum(data.win_percentage, pf, point_diff_norm(data, la),
                              data.recent_form_pct, data.consistency_score)

\* line 258: the last three tokens, or N/A
RecentFormText(recent_form) ==
    IF recent_form = <<>> THEN <<"N/A">>
    ELSE SubSeq(recent_form, IntMax(1, Len(recent_form) - 2), Len(recent_form))

\* lines 245-265
TeamRanking(data, la) ==
    [ team_name |-> data.team_name,
      record |-> <<data.wins, data.losses>>,
      win_percentage |-> data.win_percentage,
      points_for |-> data.points_for,
      points_against |-> data.points_against,
      avg_points_for |-> data.avg_points_for,
      avg_points_against |-> data.avg_points_against,
      point_differential |-> data.point_differential,
      avg_point_differential |-> data.avg_point_differential,
      highest_score |-> data.highest_score,
      lowest_score |-> data.lowest_score,
      consistency_score |-> data.consistency_score,
      recent_form |-> RecentFormText(data.recent_form),
      recent_form_pct |-> data.recent_form_pct,
      oberon_rating |-> oberon_power_rating(data),
      team_value_index |-> team_value_index(data),
      comprehensive_score |-> comprehensive_power_score(data, la) ]

RankingErr(r) ==
    IF IsErr(r.oberon_rating) THEN ErrName(r.oberon_rating)
    ELSE IF IsErr(r.team_value_index) THEN ErrName(r.team_value_index)
    ELSE IF IsErr(r.comprehensive_score) THEN ErrName(r.comprehensive_score)
    ELSE "none"

\* lines 243-266: the records in the order of team_data, up to the first
\* formula that raises
RECURSIVE RankingsFrom(_, _, _, _)
RankingsFrom(td, la, i, done) ==
    IF i > Len(td) THEN [exc |-> "none", list |-> done]
    ELSE LET r == TeamRanking(td[i], la)
             e == RankingErr(r)
         IN  IF e # "none" THEN [exc |-> e, list |-> <<>>]
             ELSE RankingsFrom(td, la, i + 1, Append(done, r))

BuildRankings ==
    /\ pc = "averaged"
    /\ LET r == RankingsFrom(team_data, league_averages, 1, <<>>)
       IN  /\ rankings' = r.list
           /\ exc' = r.exc
           /\ pc' = IF r.exc = "none" THEN "scored" ELSE "raised"
    /\ UNCHANGED <<clock, availability, earlier, current_week, rosters, user_team_mapping, team_data,
                   league_averages, week, result, weeklog>>

\* ------------------------------------------------------- sort and rank
\* x goes in front of the records whose key equals its own: descending, but
\* records with equal keys come out in reverse
InsertByKeyTiesFirst(sorted, x, field) ==
    LET before == { j \in 1..Len(sorted) : RLe(sorted[j][field], x[field]) }
        k == IF before = {} THEN Len(sorted) + 1
             ELSE CHOOSE j \in before : \A l \in before : j <= l
    IN  SubSeq(sorted, 1, k - 1) \o <<x>> \o SubSeq(sorted, k, Len(sorted))

\* reverse=True left out: ascending
InsertByKeyAscending(sorted, x, field) ==
    LET before == { j \in 1..Len(sorted) : RLt(x[field], sorted[j][field]) }
        k == IF before = {} THEN Len(sorted) + 1
             ELSE CHOOSE j \in before : \A l \in before : j <= l
    IN  SubSeq(sorted, 1, k - 1) \o <<x>> \o SubSeq(sorted, k, Len(sorted))

\* list.sort(key, reverse=True) and sorted(..., reverse=True): descending, and
\* records with equal keys keep their order.  x goes behind every record
\* whose key is >= its own.
InsertByKey(sorted, x, field) ==
    LET before == { j \in 1..Len(sorted) : RLt(sorted[j][field], x[field]) }
        k == IF before = {} THEN Len(sorted) + 1
             ELSE CHOOSE j \in before : \A l \in before : j <= l
    IN  SubSeq(sorted, 1, k - 1) \o <<x>> \o SubSeq(sorted, k, Len(sorted))

RECURSIVE SortPrefix(_, _, _)
SortPrefix(list, field, i) ==
    IF i = 0 THEN <<>> ELSE InsertByKey(SortPrefix(list, field, i - 1), list[i], field)

SortedDescending(list, field) == SortPrefix(list, field, Len(list))

\* line 269
SortRankings ==
    /\ pc = "scored"
    /\ rankings' = SortedDescending(rankings, "comprehensive_score")
    /\ pc' = "sorted"
    /\ UNCHANGED <<clock, availability, earlier, current_week, rosters, user_team_mapping, team_data,
                   league_averages, week, exc, result, weeklog>>

\* lines 272-273
WithRanks(list) == [i \in 1..Len(list) |-> list[i] @@ [power_rank |-> i]]

AssignRanks ==
    /\ pc = "sorted"
    /\ rankings' = WithRanks(rankings)
    /\ pc' = "ranked"
    /\ UNCHANGED <<clock, availability, earlier, current_week, rosters, user_team_mapping, team_data,
                   league_averages, week, exc, result, weeklog>>

\* ------------------------------------------------------- entry points
InsufficientData == "Unable to generate power rankings - insufficient data."

\* the check for an empty list left out
NoRankingsNever(list) == FALSE

\* line 292 and line 319
NoRankings(list) == list = <<>>

\* lines 292-299
DataResult(list, cw, la) ==
    IF NoRankings(list) THEN [error |-> InsufficientData]
    ELSE [rankings |-> list, current_week |-> cw, league_averages |-> la]

\* the handler lets the exception go: the caller gets no result
DataErrorReraised(e) == NoResult

\* line 302
DataError(e) == [error |-> e]

Take(list, n) == SubSeq(list, 1, IntMin(n, Len(list)))
TopShown == 5

\* lines 319-365: the report, as the values its lines are printed from
TextResult(list, cw) ==
    IF NoRankings(list) THEN [text |-> InsufficientData]
    ELSE [ text |-> "POWER RANKINGS",
           current_week |-> cw,
           teams |-> [i \in 1..Len(list) |->
                        <<list[i].power_rank, list[i].team_name, list[i].record>>],
           oberon |-> Column(Take(SortedDescending(list, "oberon_rating"), TopShown),
                             "team_name", 1),
           tvi |-> Column(Take(SortedDescending(list, "team_value_index"), TopShown),
                          "team_name", 1) ]

\* the handler prints an empty report instead of the error
TextErrorAsReport(e) ==
    [text |-> "POWER RANKINGS", current_week |-> 0, teams |-> <<>>,
     oberon |-> <<>>, tvi |-> <<>>]

\* line 368
TextError(e) == [text |-> "Error generating power rankings", message |-> e]

\* get_sleeper_power_rankings_data returns, lines 292-299
ReturnData ==
    /\ pc = "ranked"
    /\ result' = DataResult(rankings, current_week, league_averages)
    /\ pc' = "done"
    /\ UNCHANGED <<clock, availability, earlier, current_week, rosters, user_team_mapping, team_data,
                   league_averages, week, rankings, exc, weeklog>>

\* get_sleeper_power_rankings_data, lines 301-302
CatchData ==
    /\ pc = "raised"
    /\ result' = DataError(exc)
    /\ pc' = "done"
    /\ UNCHANGED <<clock, availability, earlier, current_week, rosters, user_team_mapping, team_data,
                   league_averages, week, rankings, exc, weeklog>>

\* generate_sleeper_power_rankings returns, lines 319-365
ReturnText ==
    /\ pc = "ranked"
    /\ result' = TextResult(rankings, current_week)
    /\ pc' = "done"
    /\ UNCHANGED <<clock, availability, earlier, current_week, rosters, user_team_mapping, team_data,
                   league_averages, week, rankings, exc, weeklog>>

\* generate_sleeper_power_rankings, lines 367-368
CatchText ==
    /\ pc = "raised"
    /\ result' = TextError(exc)
    /\ pc' = "done"
    /\ UNCHANGED <<clock, availability, earlier, current_week, rosters, user_team_mapping, team_data,
                   league_averages, week, rankings, exc, weeklog>>

\* ------------------------------------------------------- specification
Next ==
    \/ Construct
    \/ GatherInit
    \/ FetchRostersFails
    \/ FetchUsersFails
    \/ WeekFetchFails
    \/ WeekBuildFails
    \/ WeekCompletes
    \/ WeekRaisesPartWay
    \/ DerivedMetrics
    \/ calculate_league_averages
    \/ BuildRankings
    \/ SortRankings
    \/ AssignRanks
    \/ ReturnData
    \/ CatchData
    \/ ReturnText
    \/ CatchText

Spec == Init /\ [][Next]_vars

\* ------------------------------------------------------- runs on float scores
\* The same run up to the derived metrics, on points that use every
\* significant bit of a float, so that the sums and quotients are rounded.
FloatScores == {0 - 174, 174}

FloatWeekInputs(n) ==
    { PairWeek(n, i, a, b) : i \in 1..(n - 1), a \in FloatScores, b \in FloatScores }

\* lines 67-112 run to the end of the week's entries
FloatWeek == \E matchups \in FloatWeekInputs(Len(rosters)) : WeekCompletesOn(matchups)

\* the fields of lines 124-141 that hold the result of a float operation
FloatFields ==
    { "win_percentage", "avg_points_for", "avg_points_against", "point_differential",
      "avg_point_differential", "score_std_dev", "consistency_score", "recent_form_pct" }

FlRecord(rec) ==
    [f \in DOMAIN rec |->
        IF f \in FloatFields /\ ~IsErr(rec[f]) THEN FlRound(rec[f]) ELSE rec[f]]

\* lines 118-158, every result rounded to a float
FloatDerivedMetrics ==
    /\ pc = "weeks"
    /\ week >= current_week
    /\ LET r == DeriveFrom(team_data, 1)
       IN  /\ team_data' = [i \in 1..Len(r.td) |-> FlRecord(r.td[i])]
           /\ exc' = r.exc
           /\ pc' = IF r.exc = "none" THEN "derived" ELSE "raised"
    /\ UNCHANGED <<clock, availability, earlier, current_week, rosters, user_team_mapping, league_averages,
                   week, rankings, result, weeklog>>

FloatNext ==
    \/ Construct
    \/ GatherInit
    \/ FloatWeek
    \/ FloatDerivedMetrics

FloatSpec == Init /\ [][FloatNext]_vars

\* ------------------------------------------------------- runs of four weeks
\* A run constructed in the fifth week of the season, with four completed
\* weeks: weeks 2, 3 and 4 are inside the window of line 92, week 1 is not.
LateDates == {25, 31}

LateConstruct == \E now \in LateDates : ConstructOn(now)

\* one pairing with a winner, or nobody plays
FormWeekInputs(n) ==
    { PairWeek(n, i, MaxScore, MinScore) : i \in 1..(n - 1) }
    \cup { [r \in 1..n |-> [matchup_id |-> r, roster_id |-> r, points |-> MinScore]] }

FormWeek == \E matchups \in FormWeekInputs(Len(rosters)) : WeekCompletesOn(matchups)

FormNext ==
    \/ LateConstruct
    \/ GatherInit
    \/ WeekFetchFails
    \/ FormWeek
    \/ DerivedMetrics

FormSpec == Init /\ [][FormNext]_vars

\* ------------------------------------------------------- the four-team week
\* Four teams and one completed week: A 120 - B 100 and C 90 - D 95.  The
\* provider may list the rosters in any order.
ScenarioTeams == 4
ScenarioDates == {4, 10}
ScenarioPoints == <<120, 100, 90, 95>>

ScenarioConstruct == \E now \in ScenarioDates : ConstructOn(now)

RosterOrders(n) == { p \in [1..n -> 1..n] : \A i, j \in 1..n : p[i] = p[j] => i = j }

ScenarioGather ==
    \E p \in RosterOrders(ScenarioTeams) :
        GatherInitOn([i \in 1..ScenarioTeams |-> Rosters(ScenarioTeams)[p[i]]],
                     [o \in 1..ScenarioTeams |-> TeamNames[o]])

\* rosters 1 and 2 share one matchup, rosters 3 and 4 the other
ScenarioMatchups ==
    [r \in 1..ScenarioTeams |->
        [ matchup_id |-> (r + 1) \div 2, roster_id |-> r, points |-> ScenarioPoints[r] ]]

ScenarioWeek == WeekCompletesOn(ScenarioMatchups)

ScenarioNext ==
    \/ ScenarioConstruct
    \/ ScenarioGather
    \/ ScenarioWeek
    \/ DerivedMetrics
    \/ calculate_league_averages
    \/ BuildRankings
    \/ SortRankings
    \/ AssignRanks
    \/ ReturnData
    \/ ReturnText

ScenarioSpec == Init /\ [][ScenarioNext]_vars

\* ------------------------------------------------------- a second run
\* The caller runs the rankings twice: it calls generate_power_rankings()
\* again on the calculator it holds, or it calls the entry point again, which
\* makes a new calculator.  The first call is made in the second week of the
\* season, the second call then or a week later.
FirstDates == {4}
SecondDates == {4, 11}
RerunRosters == 1..2

RerunConstruct ==
    \E now \in (IF earlier = <<>> THEN FirstDates ELSE SecondDates) : ConstructOn(now)

RerunGather ==
    \E n \in RerunRosters : \E m \in UserMappings(n) : GatherInitOn(Rosters(n), m)

\* one pairing with a winner, or nobody plays
RerunWeek == \E matchups \in FormWeekInputs(Len(rosters)) : WeekCompletesOn(matchups)

\* what the run was given and what it returned, and whether the caller keeps
\* its calculator for the next run
Snapshot(kept) ==
    [ calculator_kept |-> kept,
      rosters |-> rosters,
      user_team_mapping |-> user_team_mapping,
      current_week |-> current_week,
      weeklog |-> weeklog,
      rankings |-> rankings,
      league_averages |-> league_averages ]

\* line 290 once more on the same object: team_data, league_averages and
\* current_week are the object's, lines 29-30 do not run again
CallAgain ==
    /\ pc = "ranked"
    /\ earlier = <<>>
    /\ earlier' = <<Snapshot(TRUE)>>
    /\ UNCHANGED <<clock, availability>>
    /\ pc' = "constructed"
    /\ rosters' = <<>>
    /\ user_team_mapping' = <<>>
    /\ week' = 0
    /\ rankings' = <<>>
    /\ weeklog' = <<>>
    /\ UNCHANGED <<current_week, team_data, league_averages, exc, result>>

\* lines 288-289 once more: a new object
NewCalculator ==
    /\ pc = "done"
    /\ exc = "none"
    /\ earlier = <<>>
    /\ earlier' = <<Snapshot(FALSE)>>
    /\ UNCHANGED <<clock, availability>>
    /\ pc' = "new"
    /\ current_week' = 0
    /\ rosters' = <<>>
    /\ user_team_mapping' = <<>>
    /\ team_data' = <<>>
    /\ league_averages' = NoAverages
    /\ week' = 0
    /\ rankings' = <<>>
    /\ result' = NoResult
    /\ weeklog' = <<>>
    /\ UNCHANGED exc

RerunNext ==
    \/ RerunConstruct
    \/ RerunGather
    \/ RerunWeek
    \/ DerivedMetrics
    \/ calculate_league_averages
    \/ BuildRankings
    \/ SortRankings
    \/ AssignRanks
    \/ ReturnData
    \/ CallAgain
    \/ NewCalculator

RerunSpec == Init /\ [][RerunNext]_vars

\* ------------------------------------------------------- lopsided weeks
\* Three teams, one or two completed weeks, and points far enough apart for
\* the cap of line 215 to act at both ends; a week's points may be negative.
BlowoutTeams == 3
BlowoutDates == {4, 11}
BlowoutScores == {0 - 30, 0, 30}

BlowoutConstruct == \E now \in BlowoutDates : ConstructOn(now)

BlowoutGather ==
    GatherInitOn(Rosters(BlowoutTeams), [o \in 1..BlowoutTeams |-> TeamNames[o]])

BlowoutWeek ==
    \E i \in 1..(BlowoutTeams - 1), a \in BlowoutScores, b \in BlowoutScores :
        WeekCompletesOn(PairWeek(BlowoutTeams, i, a, b))

BlowoutNext ==
    \/ BlowoutConstruct
    \/ BlowoutGather
    \/ BlowoutWeek
    \/ DerivedMetrics
    \/ calculate_league_averages
    \/ BuildRankings
    \/ SortRankings
    \/ AssignRanks
    \/ ReturnData

BlowoutSpec == Init /\ [][BlowoutNext]_vars

\* ------------------------------------------------------- the claims
Score(r) == r.comprehensive_score
Position(name) == IndexOf(team_data, name)
IsErrorResult(res) ==
    \/ "error" \in DOMAIN res
    \/ "text" \in DOMAIN res /\ res.text # "POWER RANKINGS"
CarriesRankings(res) ==
    \/ "rankings" \in DOMAIN res
    \/ "text" \in DOMAIN res /\ res.text = "POWER RANKINGS"

\* C1: after one ranking run the power_rank values are exactly 1..N, each
\* used once, N being the number of rosters of the input, also when two
\* rosters resolve to the same team name
C1_RanksCoverRosters ==
    pc = "ranked" =>
        /\ Len(rankings) = Len(rosters)
        /\ { rankings[i].power_rank : i \in 1..Len(rankings) } = 1..Len(rosters)

\* C2: the returned list is in descending order of comprehensive_score, teams
\* with equal scores in the order they were inserted into team_data; sorting
\* it again changes nothing and power_rank is the position 1, 2, .., N
C2_SortedStable ==
    pc \in {"sorted", "ranked", "done"} =>
        /\ \A i, j \in 1..Len(rankings) :
              i < j =>
                 /\ RLe(Score(rankings[j]), Score(rankings[i]))
                 /\ Score(rankings[i]) = Score(rankings[j])
                       => Position(rankings[i].team_name) < Position(rankings[j].team_name)
        /\ SortedDescending(rankings, "comprehensive_score") = rankings
        /\ pc # "sorted" => \A i \in 1..Len(rankings) : rankings[i].power_rank = i

\* two teams tie, and a team inserted later stands in front of an earlier one
C2_TieAndReorder ==
    /\ pc = "ranked"
    /\ \E i, j \in 1..Len(rankings) :
          i < j /\ Score(rankings[i]) = Score(rankings[j])
    /\ \E i, j \in 1..Len(rankings) :
          i < j /\ Position(rankings[i].team_name) > Position(rankings[j].team_name)

\* the weeks that ran to their end in which the team was one side of a
\* two-sided entry
WeeksPlayed(name) ==
    Cardinality({ k \in 1..Len(weeklog) :
                    weeklog[k].outcome = "ok" /\ name \in weeklog[k].played })

\* C3: for every team of the result wins + losses is the number of
\* non-skipped weeks in which the team was one side of a two-sided entry
C3_GamesAreWeeksPlayed ==
    pc = "ranked" =>
        \A i \in 1..Len(rankings) :
            rankings[i].record[1] + rankings[i].record[2]
                = WeeksPlayed(rankings[i].team_name)

\* C4: a team without games has every derived metric and every ranking
\* formula output equal to 0, whatever the other teams played
C4_NoGamesAllZero ==
    pc = "ranked" =>
        \A i \in 1..Len(rankings) :
            rankings[i].record = <<0, 0>> =>
                LET data == team_data[Position(rankings[i].team_name)]
                IN  /\ data.win_percentage = Zero
                    /\ data.avg_points_for = Zero
                    /\ data.avg_points_against = Zero
                    /\ data.point_differential = Zero
                    /\ data.avg_point_differential = Zero
                    /\ data.score_std_dev = Zero
                    /\ data.consistency_score = Zero
                    /\ data.recent_form_pct = Zero
                    /\ rankings[i].oberon_rating = Zero
                    /\ rankings[i].team_value_index = Zero
                    /\ rankings[i].comprehensive_score = Zero

\* C5: a week whose processing raises, at the fetch, at the scoreboards or
\* part-way through its entries, leaves every team's counters as they were
C5_RaisingWeekChangesNothing ==
    [][ (week' = week + 1 /\ weeklog'[week'].outcome \in {"skipped", "raised"})
            => team_data' = team_data ]_vars

\* C6: a failure inside the weeks never aborts the run: once the teams are
\* set up, the run takes every week and returns rankings, not an error
C6_WeekFailureNeverAborts ==
    (pc = "done" /\ team_data # <<>>) =>
        /\ week = current_week
        /\ ~IsErrorResult(result)

\* C7: every call of an entry point returns, and what it returns either
\* carries rankings (with current_week and league_averages) or an error
\* marker, never both and never neither; an error exactly when the run raised
\* or ranked no team
C7_ResultOrError ==
    pc = "done" =>
        /\ result # NoResult
        /\ IsErrorResult(result) # CarriesRankings(result)
        /\ IsErrorResult(result) <=> (exc # "none" \/ rankings = <<>>)
        /\ "rankings" \in DOMAIN result =>
              /\ result.rankings = rankings
              /\ result.current_week = current_week
              /\ result.league_averages = league_averages

\* a run that raised after its teams were set up, answered with the error
C7_RaisedInsideRun ==
    /\ pc = "done"
    /\ exc = "TypeError"
    /\ team_data # <<>>
    /\ "error" \in DOMAIN result

\* C8: a league without rosters gets the "insufficient data" result and no
\* rankings
C8_EmptyLeagueInsufficient ==
    (pc = "done" /\ exc = "none" /\ rosters = <<>>) =>
        result \in { [error |-> InsufficientData], [text |-> InsufficientData] }

\* an empty league, three weeks taken, answered with "insufficient data"
C8_EmptyLeagueDone ==
    /\ pc = "done"
    /\ exc = "none"
    /\ rosters = <<>>
    /\ week = 3
    /\ result = [error |-> InsufficientData]

\* C9: when the rosters or the users cannot be fetched the run ends with one
\* error result: no week is taken, no team ranked
C9_FetchFailureIsOneError ==
    exc = "FetchError" =>
        /\ week = 0
        /\ weeklog = <<>>
        /\ team_data = <<>>
        /\ rankings = <<>>
        /\ pc \in {"raised", "done"}
        /\ pc = "done" => IsErrorResult(result) /\ ~CarriesRankings(result)

\* the rosters came, the users did not, weeks were due, the error is returned
C9_UsersFetchFailed ==
    /\ pc = "done"
    /\ exc = "FetchError"
    /\ rosters # <<>>
    /\ current_week > 0
    /\ IsErrorResult(result)

\* C10: no step of the derived metrics, the league averages or the ranking
\* formulas divides by zero or takes a mean or deviation of too few samples;
\* with a league average of avg_points_for of 0 the points-for term of
\* every comprehensive score is 0, and a team whose avg_points_against is 0
\* has team_value_index 0
C10_NoDivisionByZero ==
    /\ exc \notin {"ZeroDivisionError", "StatisticsError"}
    /\ pc = "ranked" =>
          \A i \in 1..Len(rankings) :
              LET data == team_data[Position(rankings[i].team_name)]
              IN  /\ RIsZero(data.avg_points_against)
                        => rankings[i].team_value_index = Zero
                  /\ (~IsEmptyAverages(league_averages)
                        /\ RIsZero(league_averages.avg_points_for))
                        => rankings[i].comprehensive_score
                             = WeightedSum(data.win_percentage, Zero,
                                           point_diff_norm(data, league_averages),
                                           data.recent_form_pct, data.consistency_score)

\* an all-zero league: the average of avg_points_for is 0, one team never
\* played, another played twice
C10_AllZeroLeague ==
    /\ pc = "ranked"
    /\ ~IsEmptyAverages(league_averages)
    /\ RIsZero(league_averages.avg_points_for)
    /\ \E i \in 1..Len(rankings) : rankings[i].record = <<0, 0>>
    /\ \E i \in 1..Len(rankings) : rankings[i].record[1] + rankings[i].record[2] = 2

\* C11: in the final record of every team with a game or more,
\* highest_score >= avg_points_for >= lowest_score, whatever the weekly scores
\* (zero and negative ones included)
C11_AverageBetweenExtremes ==
    pc = "derived" =>
        \A i \in 1..Len(team_data) :
            team_data[i].wins + team_data[i].losses > 0 =>
                /\ RLe(team_data[i].avg_points_for, R(team_data[i].highest_score))
                /\ RLe(R(team_data[i].lowest_score), team_data[i].avg_points_for)

\* the weeks of the run that were processed to their end
ProcessedWeeks == { k \in 1..Len(weeklog) : weeklog[k].outcome = "ok" }
\* the three latest of them (all of them when there are fewer)
RecentProcessed ==
    { k \in ProcessedWeeks :
        Cardinality({ l \in ProcessedWeeks : l > k }) < RecentWindow }
GamesIn(name, weeks) ==
    Cardinality({ k \in weeks : name \in weeklog[k].played })

\* C12: a team's recent_form holds one token for each of its games in the
\* three most recent processed (non-skipped) weeks of the run and no other
\* token, so never more than three
C12_RecentFormIsLastProcessed ==
    pc = "derived" =>
        \A i \in 1..Len(team_data) :
            /\ Len(team_data[i].recent_form)
                  = GamesIn(team_data[i].team_name, RecentProcessed)
            /\ Len(team_data[i].recent_form) <= RecentWindow

RankOf(name) ==
    rankings[CHOOSE i \in 1..Len(rankings) : rankings[i].team_name = name].power_rank
RecordOf(name) ==
    rankings[CHOOSE i \in 1..Len(rankings) : rankings[i].team_name = name]

\* C13: in the league of four teams with the one week A 120 - B 100 and
\* C 90 - D 95, A is 1-0 with 120 points, B 0-1 with 100, C 0-1 with 90 and
\* D 1-0 with 95; A is ranked first, D second, B and C below them
C13_FourTeamWeek ==
    (pc = "ranked" /\ Len(rosters) = ScenarioTeams /\ Len(weeklog) = 1) =>
        /\ Len(rankings) = ScenarioTeams
        /\ RecordOf("A").record = <<1, 0>> /\ RecordOf("A").points_for = 120
        /\ RecordOf("B").record = <<0, 1>> /\ RecordOf("B").points_for = 100
        /\ RecordOf("C").record = <<0, 1>> /\ RecordOf("C").points_for = 90
        /\ RecordOf("D").record = <<1, 0>> /\ RecordOf("D").points_for = 95
        /\ RecordOf("A").avg_point_differential = R(20)
        /\ RecordOf("D").avg_point_differential = R(5)
        /\ RankOf("A") = 1
        /\ RankOf("D") = 2
        /\ RankOf("B") > 2
        /\ RankOf("C") > 2

\* the week is ranked with D listed first by the provider and B before A
C13_RankedAgainstInsertion ==
    /\ pc = "ranked"
    /\ Len(weeklog) = 1
    /\ Len(rankings) = ScenarioTeams
    /\ team_data[1].team_name = "D"
    /\ Position("B") < Position("A")
    /\ rankings[1].team_name = "A"

\* the sample variance by its definition: the squared distances from the
\* mean, over n - 1
RECURSIVE SquaredDistances(_, _)
SquaredDistances(xs, m) ==
    IF xs = <<>> THEN Zero
    ELSE LET dist == RSub(R(Head(xs)), m)
         IN  RAdd(RMul(dist, dist), SquaredDistances(Tail(xs), m))
SampleVariance(xs) ==
    RDivide(SquaredDistances(xs, Frac(SumInts(xs), Len(xs))), R(Len(xs) - 1))

\* C14: a team with one entry in weekly_scores has score_std_dev 0 and
\* consistency_score 1; a team with two entries or more has consistency_score
\* 1/(1 + s), s being the sample standard deviation of its weekly_scores
\* (here to 1/SqrtScale)
C14_ConsistencyFromDeviation ==
    pc = "derived" =>
        \A i \in 1..Len(team_data) :
            LET ws == team_data[i].weekly_scores
                sd == team_data[i].score_std_dev
                cs == team_data[i].consistency_score
                up == RAdd(sd, Frac(1, SqrtScale))
            IN  /\ Len(ws) = 1 => sd = Zero /\ cs = One
                /\ Len(ws) >= 2 =>
                      /\ cs = RDivide(One, RAdd(One, sd))
                      /\ RLe(Zero, sd)
                      /\ RLe(RMul(sd, sd), SampleVariance(ws))
                      /\ RLt(SampleVariance(ws), RMul(up, up))

\* one team played once, another three times with different scores
C14_OneAndThreeScores ==
    /\ pc = "derived"
    /\ \E i \in 1..Len(team_data) : Len(team_data[i].weekly_scores) = 1
    /\ \E i \in 1..Len(team_data) :
          /\ Len(team_data[i].weekly_scores) = 3
          /\ team_data[i].score_std_dev # Zero

\* no week of the run was processed to its end with a two-sided entry
NoGamePlayed ==
    \A k \in 1..Len(weeklog) :
        weeklog[k].outcome # "ok" \/ weeklog[k].played = {}

\* C15: when no team has played a game (no completed week, every week
\* skipped, or no two-sided entry) the league averages are empty, every
\* comprehensive_score is 0 and the run returns all its teams ranked 1..N in
\* insertion order, not an error
C15_NoGamesRankedInOrder ==
    (pc = "done" /\ team_data # <<>> /\ NoGamePlayed) =>
        /\ exc = "none"
        /\ IsEmptyAverages(league_averages)
        /\ Len(rankings) = Len(team_data)
        /\ \A i \in 1..Len(rankings) :
              /\ i <= Len(team_data) => rankings[i].team_name = team_data[i].team_name
              /\ rankings[i].power_rank = i
              /\ rankings[i].comprehensive_score = Zero

\* the run is given what the earlier run was given (a week's log tells its
\* matchups: the pairing with its winner, or nobody playing)
SameInput ==
    /\ earlier # <<>>
    /\ rosters = earlier[1].rosters
    /\ user_team_mapping = earlier[1].user_team_mapping
    /\ current_week = earlier[1].current_week
    /\ weeklog = earlier[1].weeklog

\* C16: two runs on identical input (rosters, mappings, weekly matchups,
\* completed weeks) return identical record sequences, and sorting the two
\* by team_value_index, descending and stable, gives the same order
C16_SameInputSameRankings ==
    (pc = "ranked" /\ SameInput) =>
        /\ rankings = earlier[1].rankings
        /\ Column(SortedDescending(rankings, "team_value_index"), "team_name", 1)
             = Column(SortedDescending(earlier[1].rankings, "team_value_index"),
                      "team_name", 1)

\* the second run was made on the calculator of the first, two teams played
\* in both
C16_SameCalculatorTwice ==
    /\ pc = "ranked"
    /\ SameInput
    /\ earlier[1].calculator_kept
    /\ Len(rankings) = 2
    /\ \E k \in 1..Len(weeklog) : weeklog[k].played # {}

WeeksTaken(log) == { log[k].week : k \in 1..Len(log) }

\* C17: the weeks a run processes are 1..C for the completed-week count C
\* the caller supplies, never a count the engine takes from the clock or a
\* calendar: a caller who asks again with the same input gets the same weeks
\* processed, whenever he asks
C17_WeeksFromCallerOnly ==
    /\ pc \in {"derived", "averaged", "scored", "sorted", "ranked"}
          => WeeksTaken(weeklog) = 1..current_week
    /\ (pc = "ranked" /\ earlier # <<>>)
          => WeeksTaken(weeklog) = WeeksTaken(earlier[1].weeklog)

\* the names the rosters of this run resolve to
RosterNames ==
    { TeamNameOf(rosters[r], user_team_mapping) : r \in 1..Len(rosters) }

\* C18: nothing is kept from one run to the next, also on the same
\* calculator: the second run ranks the teams of its own rosters only, and
\* its league averages come from its own weeks
C18_NothingLeftOver ==
    pc = "ranked" =>
        /\ \A i \in 1..Len(rankings) : rankings[i].team_name \in RosterNames
        /\ NoGamePlayed => IsEmptyAverages(league_averages)

\* the point-differential term as the specification writes it: remap
\* (d - L)/10 to (x + 1)/2 first, cap to [0, 1] afterwards
RemapThenCap(d, L) ==
    LET remapped == RDivide(RAdd(RDivide(RSub(d, L), R(10)), One), R(2))
    IN  IF RLt(remapped, Zero) THEN Zero
        ELSE IF RLt(One, remapped) THEN One ELSE remapped

InUnit(x) == RLe(Zero, x) /\ RLe(x, One)

\* avg_points_for over the league's, 0 when the league's is not positive
PointsForRatio(data) ==
    IF RLt(Zero, league_averages.avg_points_for)
    THEN RDivide(data.avg_points_for, league_averages.avg_points_for)
    ELSE Zero

\* C19: the point-differential term of comprehensive_power_score (cap
\* (d - L)/10 to [-1, 1], then (x + 1)/2) is the specification's
\* cap-to-[0, 1] of ((d - L)/10 + 1)/2 and lies in [0, 1]; the score is
\* 0.30 win_percentage + 0.25 points-for ratio + 0.20 that term
\* + 0.15 recent_form_pct + 0.10 consistency_score
C19_DifferentialTermAndWeights ==
    (pc = "ranked" /\ ~IsEmptyAverages(league_averages)) =>
        \A i \in 1..Len(rankings) :
            LET data == team_data[Position(rankings[i].team_name)]
                term == RemapThenCap(data.avg_point_differential,
                                     league_averages.avg_point_diff)
            IN  /\ point_diff_norm(data, league_averages) = term
                /\ InUnit(term)
                /\ rankings[i].comprehensive_score
                     = RAdd(RAdd(RAdd(RAdd(RMul(Frac(30, 100), data.win_percentage),
                                           RMul(Frac(25, 100), PointsForRatio(data))),
                                      RMul(Frac(20, 100), term)),
                                 RMul(Frac(15, 100), data.recent_form_pct)),
                            RMul(Frac(10, 100), data.consistency_score))

\* one team's term is capped at 1, another's at 0, a third's is in between
C19_BothCapsAndBetween ==
    /\ pc = "ranked"
    /\ ~IsEmptyAverages(league_averages)
    /\ \E i, j, k \in 1..Len(team_data) :
          LET x(t) == RDivide(RSub(team_data[t].avg_point_differential,
                                   league_averages.avg_point_diff), R(10))
          IN  /\ RLt(One, x(i))
              /\ RLt(x(j), R(0 - 1))
              /\ RLt(R(0 - 1), x(k)) /\ RLt(x(k), One) /\ x(k) # Zero

\* C20: comprehensive_score lies in [0, 1], for every team in every run
C20_ScoreInUnitInterval ==
    pc = "ranked" =>
        \A i \in 1..Len(rankings) : InUnit(rankings[i].comprehensive_score)

\* C20, amended: the score lies between 0.25 r and 0.25 r + 0.75, r being the
\* team's avg_points_for over the league's (0 when the league's is not
\* positive, or no team has played): inside [0, 1] for 0 <= r <= 1, above 1
\* only for a team above the league's average and below 0 only for a team
\* whose average points are negative
C20_ScoreWithinRatioBand ==
    pc = "ranked" =>
        \A i \in 1..Len(rankings) :
            LET data == team_data[Position(rankings[i].team_name)]
                r == IF IsEmptyAverages(league_averages) THEN Zero
                     ELSE PointsForRatio(data)
                low == RMul(Frac(25, 100), r)
                score == rankings[i].comprehensive_score
            IN  /\ RLe(low, score)
                /\ RLe(score, RAdd(low, Frac(75, 100)))
                /\ (RLe(Zero, r) /\ RLe(r, One)) => InUnit(score)
                /\ RLt(One, score) => RLt(One, r)
                /\ RLt(score, Zero) => RLt(data.avg_points_for, Zero)

\* one team's score is above 1 and another's below 0
C20_AboveOneAndBelowZero ==
    /\ pc = "ranked"
    /\ \E i \in 1..Len(rankings) : RLt(One, rankings[i].comprehensive_score)
    /\ \E i \in 1..Len(rankings) : RLt(rankings[i].comprehensive_score, Zero)

\* the league's total of one counter
RECURSIVE TotalOf(_, _, _)
TotalOf(td, field, i) ==
    IF i > Len(td) THEN 0 ELSE td[i][field] + TotalOf(td, field, i + 1)

\* C21: after every week the league's wins equal its losses and its
\* points_for equal its points_against, whatever names the sides carry
C21_TotalsBalance ==
    pc = "weeks" =>
        /\ TotalOf(team_data, "wins", 1) = TotalOf(team_data, "losses", 1)
        /\ TotalOf(team_data, "points_for", 1)
              = TotalOf(team_data, "points_against", 1)

\* the names of the teams without a game
ZeroGameNames(td) ==
    { td[i].team_name : i \in { j \in 1..Len(td) : td[j].wins + td[j].losses = 0 } }
\* the teams with a game, as positions of team_data
PlayedPositions(td) == { i \in 1..Len(td) : td[i].wins + td[i].losses > 0 }

\* the sum of one derived metric over a set of positions
RECURSIVE TotalOver(_, _, _)
TotalOver(td, field, ps) ==
    IF ps = {} THEN Zero
    ELSE LET i == CHOOSE j \in ps : TRUE
         IN  RAdd(td[i][field], TotalOver(td, field, ps \ {i}))

MeanOver(td, field, ps) == RDivide(TotalOver(td, field, ps), R(Cardinality(ps)))

\* team_data without the teams named in gone
WithoutTeams(td, gone) == SelectSeq(td, LAMBDA data : data.team_name \notin gone)
\* team_data with one more team that never played
WithIdleTeam(td) ==
    Append(td, DeriveTeam(NewTeam("Idle", [roster_id |-> 0, owner_id |-> 0])).rec)

\* the comprehensive scores of the teams named in names, under the averages of td
ScoresUnder(td, names) ==
    [ name \in names |->
        comprehensive_power_score(td[IndexOf(td, name)],
                                  LeagueAverages(td, NoAverages)) ]

\* C22: the four league averages are the arithmetic means over exactly the
\* teams with wins + losses > 0; taking away any teams without games, or
\* adding one, changes none of the averages and no other team's
\* comprehensive_score
C22_AveragesOverTeamsWithGames ==
    pc = "scored" =>
        LET ps == PlayedPositions(team_data)
            playing == Names(team_data) \ ZeroGameNames(team_data)
        IN  /\ ps = {} => IsEmptyAverages(league_averages)
            /\ ps # {} =>
                  /\ league_averages.avg_points_for
                        = MeanOver(team_data, "avg_points_for", ps)
                  /\ league_averages.avg_points_against
                        = MeanOver(team_data, "avg_points_against", ps)
                  /\ league_averages.avg_win_pct
                        = MeanOver(team_data, "win_percentage", ps)
                  /\ league_averages.avg_point_diff
                        = MeanOver(team_data, "avg_point_differential", ps)
            /\ \A gone \in SUBSET ZeroGameNames(team_data) :
                  LET fewer == WithoutTeams(team_data, gone)
                  IN  /\ LeagueAverages(fewer, NoAverages) = league_averages
                      /\ \A i \in 1..Len(rankings) :
                            rankings[i].team_name \notin gone =>
                                rankings[i].comprehensive_score
                                    = ScoresUnder(fewer, Names(fewer))[rankings[i].team_name]
            /\ LET more == WithIdleTeam(team_data)
               IN  /\ LeagueAverages(more, NoAverages) = league_averages
                   /\ \A i \in 1..Len(rankings) :
                         rankings[i].comprehensive_score
                             = ScoresUnder(more, Names(team_data))[rankings[i].team_name]

\* a league of three in which one team had byes only and the two others played
C22_IdleTeamBesidePlayers ==
    /\ pc = "scored"
    /\ Len(team_data) = 3
    /\ Cardinality(ZeroGameNames(team_data)) = 1
    /\ ~IsEmptyAverages(league_averages)
    /\ ~RIsZero(league_averages.avg_points_for)

\* the largest and the smallest of a team's weekly scores
MaxOf(xs) == CHOOSE x \in { xs[i] : i \in 1..Len(xs) } : \A j \in 1..Len(xs) : x >= xs[j]
MinOf(xs) == CHOOSE x \in { xs[i] : i \in 1..Len(xs) } : \A j \in 1..Len(xs) : x <= xs[j]

\* C23: once the weeks are accumulated and the records completed, a team
\* with a game has highest_score = max and lowest_score = min of its
\* weekly_scores, a team without a game has 0 for both, and no record of the
\* result carries the infinite sentinel
C23_ExtremesOfWeeklyScores ==
    /\ pc \in {"derived", "averaged", "scored", "sorted", "ranked"} =>
          \A i \in 1..Len(team_data) :
              LET data == team_data[i]
              IN  IF data.weekly_scores # <<>>
                  THEN /\ data.highest_score = MaxOf(data.weekly_scores)
                       /\ data.lowest_score = MinOf(data.weekly_scores)
                  ELSE /\ data.highest_score = 0
                       /\ data.lowest_score = 0
    /\ \A i \in 1..Len(rankings) :
          /\ rankings[i].highest_score # Inf
          /\ rankings[i].lowest_score # Inf

\* what a state shows of the phases that have run
HasDerived(data) == "win_percentage" \in DOMAIN data
HasAllDerived(data) == "recent_form_pct" \in DOMAIN data
SomeDerived == \E i \in 1..Len(team_data) : HasDerived(team_data[i])
AllDerived == \A i \in 1..Len(team_data) : HasAllDerived(team_data[i])
SomeRanked == \E i \in 1..Len(rankings) : "power_rank" \in DOMAIN rankings[i]

\* the order of the phases, as far as one state shows it
PhasesInOrder ==
    /\ \A k \in 1..Len(weeklog) : weeklog[k].week = k
    /\ Len(weeklog) = week
    /\ SomeDerived => week >= current_week
    /\ ~IsEmptyAverages(league_averages) => AllDerived
    /\ rankings # <<>> =>
          /\ AllDerived
          /\ TeamsWithGames(team_data) # <<>> => ~IsEmptyAverages(league_averages)
    /\ SomeRanked =>
          \A i, j \in 1..Len(rankings) :
              i < j => RLe(rankings[j].comprehensive_score,
                           rankings[i].comprehensive_score)

\* the order of the phases, step by step
PhaseStep ==
    /\ week' # week => /\ week' = week + 1
                       /\ week' <= current_week
                       /\ ~SomeDerived
    /\ SomeDerived => /\ week' = week
                      /\ weeklog' = weeklog
    /\ league_averages' # league_averages =>
          /\ IsEmptyAverages(league_averages)
          /\ rankings = <<>>
    /\ rankings # <<>> => league_averages' = league_averages
    /\ SomeRanked => rankings' = rankings

\* C24: within one run the weeks are taken one at a time in ascending order,
\* each once; derived metrics exist only after the last week; the league
\* averages are set once, after every team's derived metrics; the ranking
\* records are built after the averages, which then stay; and power_rank
\* is given to records that are sorted already and stay in that order
C24_PhasesInFixedOrder == []PhasesInOrder /\ [][PhaseStep]_vars

\* a run over two weeks that reached its ranks with league averages set
C24_TwoWeeksThroughRanks ==
    /\ pc = "ranked"
    /\ week = 2
    /\ ~IsEmptyAverages(league_averages)
    /\ SomeRanked
    /\ Len(rankings) >= 2

\* the weeks of the run have all been taken
Accumulated == pc # "new" /\ pc # "constructed" /\ (pc = "weeks" => week >= current_week)

\* a record's raw counters, lowest_score apart
CountersOf(data) ==
    [ wins |-> data.wins,
      losses |-> data.losses,
      points_for |-> data.points_for,
      points_against |-> data.points_against,
      weekly_scores |-> data.weekly_scores,
      highest_score |-> data.highest_score,
      recent_form |-> data.recent_form ]

SameTeams ==
    /\ Len(team_data') = Len(team_data)
    /\ \A i \in 1..Len(team_data) : team_data'[i].team_name = team_data[i].team_name

\* C25 as stated: once the weeks are accumulated no later step changes any
\* raw counter of any team, lowest_score included
C25_NoCounterChangesLater ==
    [][ Accumulated =>
          /\ SameTeams
          /\ \A i \in 1..Len(team_data) :
                /\ CountersOf(team_data'[i]) = CountersOf(team_data[i])
                /\ team_data'[i].lowest_score = team_data[i].lowest_score ]_vars

\* C25 amended: once the weeks are accumulated no later step changes wins,
\* losses, points_for, points_against, weekly_scores, highest_score or
\* recent_form; lowest_score changes only in the derived-metrics pass, and
\* only from the sentinel it was initialised with to 0
C25_OnlySentinelReplaced ==
    [][ Accumulated =>
          /\ SameTeams
          /\ \A i \in 1..Len(team_data) :
                /\ CountersOf(team_data'[i]) = CountersOf(team_data[i])
                /\ \/ team_data'[i].lowest_score = team_data[i].lowest_score
                   \/ /\ pc = "weeks"
                      /\ team_data[i].lowest_score = Inf
                      /\ team_data'[i].lowest_score = 0 ]_vars

\* a run that reached its ranks with a team that never played beside a team
\* that played three weeks
C25_IdleTeamAfterAllSteps ==
    /\ pc = "ranked"
    /\ \E i \in 1..Len(team_data) :
          team_data[i].weekly_scores = <<>> /\ team_data[i].lowest_score = 0
    /\ \E i \in 1..Len(team_data) : Len(team_data[i].recent_form) = 3

\* the step takes a week to its end
WeekTaken == week' = week + 1 /\ weeklog'[week'].outcome = "ok"
LastOf(xs) == xs[Len(xs)]

\* C26: a week's entry without exactly two sides changes no team's counters,
\* and of the two sides of a processed entry the one given the win scored at
\* least as much as the one given the loss
C26_OnlyPairsCountWinnerAhead ==
    [][ WeekTaken =>
          /\ Len(team_data') = Len(team_data)
          /\ \A i \in 1..Len(team_data) :
                team_data[i].team_name \notin weeklog'[week'].played
                    => team_data'[i] = team_data[i]
          /\ \A i, j \in 1..Len(team_data) :
                ( /\ team_data'[i].wins = team_data[i].wins + 1
                  /\ team_data'[j].losses = team_data[j].losses + 1 ) =>
                    LET won == team_data'[i].weekly_scores
                        lost == team_data'[j].weekly_scores
                    IN  IF i = j THEN won[Len(won) - 1] >= LastOf(won)
                        ELSE LastOf(won) >= LastOf(lost) ]_vars

\* a league of three after a week whose only entry had three sides and a
\* week in which the second-listed roster outscored the first
C26_CrowdAndUpset ==
    /\ pc = "weeks"
    /\ Len(team_data) = 3
    /\ \E k \in 1..Len(weeklog) :
          weeklog[k].outcome = "ok" /\ weeklog[k].played = {}
    /\ team_data[1].losses = 1
    /\ team_data[1].weekly_scores = <<MinScore>>
    /\ team_data[2].wins = 1
    /\ team_data[2].weekly_scores = <<MaxScore>>

\* sum(weekly_scores) as the floats add up, from the left
RECURSIVE FloatSum(_, _)
FloatSum(xs, n) == IF n = 0 THEN 0 ELSE FlAdd(FloatSum(xs, n - 1), xs[n])

\* one score for every win and loss, adding up to points_for
ScoresMatchCounters ==
    \A i \in 1..Len(team_data) :
        LET data == team_data[i]
        IN  /\ Len(data.weekly_scores) = data.wins + data.losses
            /\ data.points_for = FloatSum(data.weekly_scores, Len(data.weekly_scores))

\* a week puts its scores behind those of the weeks before it
ScoresAppended ==
    week' = week + 1 =>
        /\ Len(team_data') = Len(team_data)
        /\ \A i \in 1..Len(team_data) :
              LET before == team_data[i].weekly_scores
                  after == team_data'[i].weekly_scores
              IN  /\ Len(after) >= Len(before)
                  /\ SubSeq(after, 1, Len(before)) = before

\* the latest week of the loop was processed to its end
AfterProcessedWeek == pc = "weeks" /\ week >= 1 /\ weeklog[week].outcome = "ok"

\* C27: after every processed week, for every team, weekly_scores holds one score per
\* win and loss, in the order of the weeks, and its sum is points_for
C27_WeeklyScoresMatchCounters ==
    [](AfterProcessedWeek => ScoresMatchCounters) /\ [][ScoresAppended]_vars

\* every roster has a record of its own
NoSharedName == Len(team_data) = Len(rosters)

\* C28: when the two sides of a processed entry have equal scores, the side
\* listed first (the roster with the lower id) gets a win and the other a
\* loss; a record holds wins and losses and nothing for ties, and every
\* score of a team counts as one or the other
C28_EqualScoresFirstSideWins ==
    /\ [][ (WeekTaken /\ NoSharedName) =>
             \A i, j \in 1..Len(team_data) :
                 ( /\ {team_data[i].team_name, team_data[j].team_name}
                          = weeklog'[week'].played
                   /\ team_data[i].roster_id < team_data[j].roster_id
                   /\ LastOf(team_data'[i].weekly_scores)
                          = LastOf(team_data'[j].weekly_scores) ) =>
                     /\ team_data'[i].wins = team_data[i].wins + 1
                     /\ team_data'[i].losses = team_data[i].losses
                     /\ team_data'[j].losses = team_data[j].losses + 1
                     /\ team_data'[j].wins = team_data[j].wins ]_vars
    /\ [](/\ \A i \in 1..Len(team_data) :
                /\ "ties" \notin DOMAIN team_data[i]
                /\ Len(team_data[i].weekly_scores)
                      = team_data[i].wins + team_data[i].losses
          /\ \A i \in 1..Len(rankings) : Len(rankings[i].record) = 2)

\* after one week in which rosters 2 and 3 both scored the higher score
C28_EqualScoresPlayed ==
    /\ pc = "weeks"
    /\ week = 1
    /\ NoSharedName
    /\ Len(team_data) = 3
    /\ team_data[2].weekly_scores = <<MaxScore>>
    /\ team_data[3].weekly_scores = <<MaxScore>>
    /\ team_data[2].wins = 1
    /\ team_data[3].losses = 1

\* ------------------------------------------------------- the availability window
\* datetime.weekday(): Monday is 0; 9/4/2025, day 0 of the clock, is a Thursday
Weekday(day) == (day + 3) % 7
DayNames == <<"Monday", "Tuesday", "Wednesday", "Thursday", "Friday", "Saturday", "Sunday">>
\* strftime("%A")
DayName(now_est) == DayNames[Weekday(now_est.day) + 1]

\* helper.py lines 7-17
check_availability(now_est) ==
    LET current_hour == now_est.hour
        current_day == Weekday(now_est.day)
    IN  IF current_day = 1 /\ current_hour >= 4 THEN <<TRUE, DayName(now_est)>>
        ELSE IF 1 < current_day /\ current_day < 4 THEN <<TRUE, DayName(now_est)>>
        ELSE IF current_day = 4 /\ current_hour < 19 THEN <<TRUE, DayName(now_est)>>
        ELSE <<FALSE, DayName(now_est)>>

\* a new calculator and no run yet, at time c
InitAt(c) ==
    /\ pc = "new"
    /\ current_week = 0
    /\ rosters = <<>>
    /\ user_team_mapping = <<>>
    /\ team_data = <<>>
    /\ league_averages = NoAverages
    /\ week = 0
    /\ rankings = <<>>
    /\ exc = "none"
    /\ result = NoResult
    /\ weeklog = <<>>
    /\ earlier = <<>>
    /\ clock = c
    /\ availability = NoAnswer

\* every hour of the week from 9/4/2025 on, US/Eastern
WeekClocks == { [day |-> d, hour |-> h] : d \in 0..6, h \in 0..23 }

AvailabilityInit == \E c \in WeekClocks : InitAt(c)

\* app.py line 178: the sidebar asks once
CheckAvailability ==
    /\ availability = NoAnswer
    /\ availability' = check_availability(clock)
    /\ UNCHANGED <<clock, earlier, pc, current_week, rosters, user_team_mapping,
                   team_data, league_averages, week, rankings, exc, result, weeklog>>

AvailabilityNext == CheckAvailability

AvailabilitySpec == AvailabilityInit /\ [][AvailabilityNext]_vars

\* Tuesday from 4am, all of Wednesday, Thursday until 7pm
InRecapWindow(now_est) ==
    LET name == DayName(now_est)
    IN  \/ name = "Tuesday" /\ now_est.hour >= 4
        \/ name = "Wednesday"
        \/ name = "Thursday" /\ now_est.hour < 19

\* C29: check_availability answers True exactly from Tuesday 4am through
\* Thursday 7pm, US/Eastern, and False at every other hour of the week
C29_TrueExactlyInWindow ==
    availability # NoAnswer => (availability[1] <=> InRecapWindow(clock))

\* ------------------------------------------------------- the season's calendar
\* from three days before the first listed date to past the last one, early
\* and late in the day
CalendarClocks ==
    { [day |-> d, hour |-> h] : d \in (0 - 3)..MaxCalendarDay, h \in {0, 23} }

CalendarInit == \E c \in CalendarClocks : InitAt(c)

\* line 28 at the time of the clock
ConstructAtClock == ConstructOn(clock.day)

CalendarNext ==
    \/ ConstructAtClock
    \/ CatchData
    \/ CatchText

CalendarSpec == CalendarInit /\ [][CalendarNext]_vars

\* the listed week starts that are not after day d
StartedBy(d) == { i \in 1..Len(WeekStartDays) : WeekStartDays[i] <= d }
\* the week of the latest of them
LatestStarted(d) ==
    CHOOSE i \in StartedBy(d) :
        \A j \in StartedBy(d) : WeekStartDays[j] <= WeekStartDays[i]

\* C30: get_current_week(d) is the week of the latest listed start date
\* <= d, a number in 1..18 that never decreases as d grows, and None exactly
\* when d is before the first listed date; then the constructor raises and
\* the run ends in an error result, not rankings
C30_WeekOfLatestStart ==
    LET d == clock.day
        w == get_current_week(d)
    IN  /\ (w = NoneWeek) <=> (d < WeekStartDays[1])
        /\ w # NoneWeek =>
              /\ w = LatestStarted(d)
              /\ w \in 1..18
              /\ \A later \in d..MaxCalendarDay : w <= get_current_week(later)
        /\ pc = "constructed" => (w # NoneWeek /\ current_week = w - 1)
        /\ pc = "raised" => (w = NoneWeek /\ exc = "TypeError")
        /\ pc = "done" => (w = NoneWeek /\ IsErrorResult(result)
                                        /\ ~CarriesRankings(result))
        /\ (w = NoneWeek /\ pc # "new") => pc \in {"raised", "done"}

\* a run started the day before the first listed date has returned
C30_BeforeTheSeason ==
    /\ clock.day = 0 - 1
    /\ pc = "done"
    /\ IsErrorResult(result)

====
